---- MODULE Spec2Model ----
(***************************************************************************)
(* A model of the tax-form page classifier (parse_tax_forms.py) and of its *)
(* evaluation against ground truth (evaluate.py).                          *)
(*                                                                         *)
(* Three specifications share the variables:                               *)
(*   SpecParse  one run of parse_tax_forms.py on one PDF, the page loop of *)
(*              find_tax_forms_in_pdf taken one page at a time;            *)
(*   SpecScore  calculate_metrics_for_file applied to lists of records;    *)
(*   SpecEval   one run of evaluate_parser_accuracy over a PDF directory.  *)
(***************************************************************************)
EXTENDS Integers, Sequences, FiniteSets, TLC

VARIABLES
    prog,             \* which program runs: "parse", "score" or "eval"
    pc,               \* the position of the running program
    doc,              \* parse: the opened PDF, one identified form type per page
    page_num,         \* parse: the 0-based index of the next page of the loop
    current_form,     \* parse: the form being tracked, or None
    found_forms,      \* parse: the segments finalized so far
    results,          \* parse, eval: what main gets back
    predicted,        \* score: calculate_metrics_for_file's first argument
    ground_truth,     \* score: calculate_metrics_for_file's second argument
    metrics,          \* score: calculate_metrics_for_file's result
    pdf_files,        \* eval: the PDF names os.listdir gave, in its order
    file_idx,         \* eval: the index in pdf_files of the current file
    no_truth_warned,  \* eval: the files warned about: no ground truth, skipped
    open_failed,      \* eval: the files fitz.open failed on (error printed)
    predicted_forms,  \* eval: the parser's segments for the current file
    predicted_forms_filtered, \* eval: those of a desired type
    ground_truth_forms, \* eval: the current file's ground truth
    file_metrics,     \* eval: the current file's tp, fp, fn
    per_file_results, \* eval: file name -> its tp, fp, fn
    total_tp,         \* eval: running total of true positives
    total_fp,         \* eval: running total of false positives
    total_fn,         \* eval: running total of false negatives
    region_text,      \* identify: the text of the page's top-left rectangle
    identified_type   \* identify: what identify_form_on_page returns

parseVars == <<doc, page_num, current_form, found_forms>>
scoreVars == <<predicted, ground_truth, metrics>>
fileVars  == <<predicted_forms, predicted_forms_filtered,
               ground_truth_forms, file_metrics>>
totalVars == <<per_file_results, total_tp, total_fp, total_fn>>
printVars == <<no_truth_warned, open_failed>>
evalVars  == <<pdf_files, file_idx, fileVars, totalVars, printVars>>
identVars == <<region_text, identified_type>>
vars == <<prog, pc, results, parseVars, scoreVars, evalVars, identVars>>

-----------------------------------------------------------------------------
(* Bounds of the model.                                                    *)

\* The longest PDF of SpecParse, in pages.
MaxPages == 4

\* The longest PDF of SpecEval, in pages.
MaxEvalPages == 3

\* SpecScore: the records of the predicted and ground-truth lists together.
MaxRecords == 3

\* SpecIdentify: the words of the longest region text.
MaxWords == 4

\* SpecTwoRuns: the pages of the longest document.
MaxRunPages == 3

-----------------------------------------------------------------------------
(* Values.                                                                 *)

\* Python's None, as a page's form type and as main's result.
None == "None"

\* current_form before any form was seen (Python's None).
NoForm == << >>

\* A name of the scoring code that is not bound yet.
Unbound == << >>

\* The document types of ALL_FORM_PATTERNS, in registry order.
ALL_FORM_TYPES ==
    << "f1040s1", "f1040s2", "f1040s3", "f1040sa", "f1040sb", "f1040sc",
       "f1040sd", "f1040se", "f1040s8812", "1040f", "f8889", "f8879",
       "f1116", "f4952", "f8949", "f8995", "f8959", "f8960", "f8582",
       "f8863", "f8812", "f2441" >>

\* The allow-list of main and of evaluate_parser_accuracy.
desired_forms ==
    { "f1040s1", "f1040s3", "f1040sa", "f1040sb", "f1040sc", "f1040sd",
      "f1040se", "1040f", "f8889", "f8949" }

\* A finished form dictionary, of the parser or of a ground-truth file.
Seg(document_type, start_page, end_page) ==
    [document_type |-> document_type, start_page |-> start_page,
     end_page |-> end_page]

\* What identify_form_on_page returns for the pages of the modelled PDFs:
\* two desired types, one recognized type outside the allow-list, or None.
PageTypes == { "f1040sc", "1040f", "f1040s2", None }

\* The PDFs of at most n pages, as the sequence of their pages' form types.
Streams(n) == UNION { [1..k -> PageTypes] : k \in 0..n }

-----------------------------------------------------------------------------
(* find_tax_forms_in_pdf                                                   *)

\* Mutant of NewForm: the 0-based page index is taken for the start page.
NewForm_ZeroBased(form_type, human_page_num) ==
    [document_type |-> form_type, start_page |-> human_page_num - 1]

\* A form that has just started: document_type and start_page, no end_page yet.
NewForm(form_type, human_page_num) ==
    [document_type |-> form_type, start_page |-> human_page_num]

\* Mutant of SetEndPage: a form ends on the page it started on.
SetEndPage_StartPage(form, end_page) ==
    [document_type |-> form.document_type,
     start_page    |-> form.start_page,
     end_page      |-> form.start_page]

\* current_form["end_page"] = end_page
SetEndPage(form, end_page) ==
    [document_type |-> form.document_type,
     start_page    |-> form.start_page,
     end_page      |-> end_page]

\* Mutant of ProcessPage: a form that ends is closed on the page that starts
\* the next one.
ProcessPage_CloseOnNextStart(st, pn, form_type) ==
    LET human_page_num == pn + 1 IN
    IF form_type # None
    THEN IF st.current_form = NoForm
         THEN [current_form |-> NewForm(form_type, human_page_num),
               found_forms  |-> st.found_forms]
         ELSE IF form_type # st.current_form.document_type
              THEN [current_form |-> NewForm(form_type, human_page_num),
                    found_forms  |-> Append(st.found_forms,
                                        SetEndPage(st.current_form,
                                                   human_page_num))]
              ELSE st
    ELSE st

\* Mutant of ProcessPage: a page with no identified form closes the tracked
\* form.
ProcessPage_NoneCloses(st, pn, form_type) ==
    LET human_page_num == pn + 1 IN
    IF form_type # None
    THEN IF st.current_form = NoForm
         THEN [current_form |-> NewForm(form_type, human_page_num),
               found_forms  |-> st.found_forms]
         ELSE IF form_type # st.current_form.document_type
              THEN [current_form |-> NewForm(form_type, human_page_num),
                    found_forms  |-> Append(st.found_forms,
                                        SetEndPage(st.current_form,
                                                   human_page_num - 1))]
              ELSE st
    ELSE IF st.current_form = NoForm
         THEN st
         ELSE [current_form |-> NoForm,
               found_forms  |-> Append(st.found_forms,
                                   SetEndPage(st.current_form,
                                              human_page_num - 1))]

\* Mutant of ProcessPage: a page whose form type is not desired is taken as a
\* page with no form type.
ProcessPage_SkipsUndesired(st, pn, form_type) ==
    LET human_page_num == pn + 1 IN
    IF form_type # None /\ form_type \in desired_forms
    THEN IF st.current_form = NoForm
         THEN [current_form |-> NewForm(form_type, human_page_num),
               found_forms  |-> st.found_forms]
         ELSE IF form_type # st.current_form.document_type
              THEN [current_form |-> NewForm(form_type, human_page_num),
                    found_forms  |-> Append(st.found_forms,
                                        SetEndPage(st.current_form,
                                                   human_page_num - 1))]
              ELSE st
    ELSE st

\* Mutant of ProcessPage: every page with a form type closes the tracked form
\* and starts a new one.
ProcessPage_SplitsEachPage(st, pn, form_type) ==
    LET human_page_num == pn + 1 IN
    IF form_type # None
    THEN IF st.current_form = NoForm
         THEN [current_form |-> NewForm(form_type, human_page_num),
               found_forms  |-> st.found_forms]
         ELSE [current_form |-> NewForm(form_type, human_page_num),
               found_forms  |-> Append(st.found_forms,
                                   SetEndPage(st.current_form,
                                              human_page_num - 1))]
    ELSE st

\* Mutant of ProcessPage: a page of the tracked form's type starts the
\* tracked form again.
ProcessPage_SameRestarts(st, pn, form_type) ==
    LET human_page_num == pn + 1 IN
    IF form_type # None
    THEN IF st.current_form = NoForm
         THEN [current_form |-> NewForm(form_type, human_page_num),
               found_forms  |-> st.found_forms]
         ELSE IF form_type # st.current_form.document_type
              THEN [current_form |-> NewForm(form_type, human_page_num),
                    found_forms  |-> Append(st.found_forms,
                                        SetEndPage(st.current_form,
                                                   human_page_num - 1))]
              ELSE [current_form |-> NewForm(form_type, human_page_num),
                    found_forms  |-> st.found_forms]
    ELSE st

\* One iteration of the page loop: the page at 0-based index pn has form type
\* form_type; st holds current_form and found_forms.
ProcessPage(st, pn, form_type) ==
    LET human_page_num == pn + 1 IN
    IF form_type # None
    THEN IF st.current_form = NoForm
         THEN [current_form |-> NewForm(form_type, human_page_num),
               found_forms  |-> st.found_forms]
         ELSE IF form_type # st.current_form.document_type
              THEN [current_form |-> NewForm(form_type, human_page_num),
                    found_forms  |-> Append(st.found_forms,
                                        SetEndPage(st.current_form,
                                                   human_page_num - 1))]
              ELSE st
    ELSE st

\* Mutant of FinishForms: the form still tracked after the loop is dropped.
FinishForms_DropOpen(st, num_pages) == st.found_forms

\* Mutant of FinishForms: the last form ends on the 0-based index of the last
\* page.
FinishForms_LastIndex(st, num_pages) ==
    IF st.current_form # NoForm
    THEN Append(st.found_forms, SetEndPage(st.current_form, num_pages - 1))
    ELSE st.found_forms

\* After the loop: a form still tracked ends on the last page of the document.
FinishForms(st, num_pages) ==
    IF st.current_form # NoForm
    THEN Append(st.found_forms, SetEndPage(st.current_form, num_pages))
    ELSE st.found_forms

\* Mutant of FilterDesired: nothing is filtered out.
FilterDesired_KeepAll(forms) == forms

\* The filter of main and of evaluate_parser_accuracy.
FilterDesired(forms) ==
    SelectSeq(forms, LAMBDA form : form.document_type \in desired_forms)

\* The page loop from 0-based index pn to the end of the document d.
RECURSIVE PageLoop(_, _, _)
PageLoop(d, pn, st) ==
    IF pn >= Len(d) THEN st
    ELSE PageLoop(d, pn + 1, ProcessPage(st, pn, d[pn + 1]))

\* find_tax_forms_in_pdf as one call: pdf.readable tells whether fitz.open
\* succeeds, pdf.pages holds the form type identified on each page.
find_tax_forms_in_pdf(pdf) ==
    IF ~pdf.readable THEN << >>
    ELSE FinishForms(PageLoop(pdf.pages, 0,
                              [current_form |-> NoForm, found_forms |-> << >>]),
                     Len(pdf.pages))

-----------------------------------------------------------------------------
(* parse_tax_forms.py, one run.                                            *)

\* The variables of the programs that do not run keep these values.
IdleParse ==
    /\ doc = << >> /\ page_num = 0 /\ current_form = NoForm
    /\ found_forms = << >>

IdleScore == predicted = << >> /\ ground_truth = << >> /\ metrics = Unbound

IdleEval ==
    /\ pdf_files = << >> /\ file_idx = 0
    /\ no_truth_warned = {} /\ open_failed = {}
    /\ predicted_forms = << >> /\ predicted_forms_filtered = << >>
    /\ ground_truth_forms = << >> /\ file_metrics = Unbound
    /\ per_file_results = << >>
    /\ total_tp = 0 /\ total_fp = 0 /\ total_fn = 0

IdleIdentify == region_text = << >> /\ identified_type = None

InitParse ==
    /\ prog = "parse"
    /\ pc = "open"
    /\ doc = << >>
    /\ page_num = 0
    /\ current_form = NoForm
    /\ found_forms = << >>
    /\ results = None
    /\ IdleScore /\ IdleEval /\ IdleIdentify

\* fitz.open succeeds: the loop starts at page 0.
OpenDoc ==
    /\ prog = "parse" /\ pc = "open"
    /\ \E d \in Streams(MaxPages) : doc' = d
    /\ pc' = "loop"
    /\ UNCHANGED <<prog, page_num, current_form, found_forms, results,
                   scoreVars, evalVars, identVars>>

\* fitz.open raises: find_tax_forms_in_pdf returns [].
OpenFails ==
    /\ prog = "parse" /\ pc = "open"
    /\ pc' = "returned"
    /\ UNCHANGED <<prog, results, parseVars, scoreVars, evalVars, identVars>>

\* One page of the loop.
LoadPage ==
    /\ prog = "parse" /\ pc = "loop"
    /\ page_num < Len(doc)
    /\ LET st == ProcessPage([current_form |-> current_form,
                              found_forms  |-> found_forms],
                             page_num, doc[page_num + 1])
       IN /\ current_form' = st.current_form
          /\ found_forms' = st.found_forms
    /\ page_num' = page_num + 1
    /\ UNCHANGED <<prog, pc, doc, results, scoreVars, evalVars, identVars>>

\* The loop is over: the tracked form is finalized and the list returned.
EndOfDoc ==
    /\ prog = "parse" /\ pc = "loop"
    /\ page_num = Len(doc)
    /\ found_forms' = FinishForms([current_form |-> current_form,
                                   found_forms  |-> found_forms], Len(doc))
    /\ pc' = "returned"
    /\ UNCHANGED <<prog, doc, page_num, current_form, results,
                   scoreVars, evalVars, identVars>>

\* main: nothing identified returns None, else the filtered list.
MainFilter ==
    /\ prog = "parse" /\ pc = "returned"
    /\ results' = IF found_forms = << >> THEN None ELSE FilterDesired(found_forms)
    /\ pc' = "exit"
    /\ UNCHANGED <<prog, parseVars, scoreVars, evalVars, identVars>>

NextParse == OpenDoc \/ OpenFails \/ LoadPage \/ EndOfDoc \/ MainFilter

SpecParse == InitParse /\ [][NextParse]_vars

-----------------------------------------------------------------------------
(* calculate_metrics_for_file                                              *)

\* The keys of a form dictionary, in the order sorted() puts its items.
ItemKeys == << "document_type", "end_page", "start_page" >>

\* Mutant of SortedItems: the end page is left out of the comparison key.
SortedItems_NoEndPage(p) ==
    << << "document_type", p.document_type >>,
       << "start_page", p.start_page >> >>

\* tuple(sorted(p.items())): the (key, value) pairs of p in key order.
SortedItems(p) ==
    LET keys == SelectSeq(ItemKeys, LAMBDA k : k \in DOMAIN p)
    IN [i \in 1..Len(keys) |-> << keys[i], p[keys[i]] >>]

\* Mutant of ItemSet: a repeated record is kept apart from its earlier copies.
ItemSet_Occurrences(forms) ==
    { << SortedItems(forms[i]),
         Cardinality({ j \in 1..i : forms[j] = forms[i] }) >> :
      i \in 1..Len(forms) }

\* { tuple(sorted(p.items())) for p in forms }
ItemSet(forms) == { SortedItems(forms[i]) : i \in 1..Len(forms) }

\* Mutant of calculate_metrics_for_file: fp and fn are what is left of the
\* lists' lengths after the true positives.
calculate_metrics_for_file_ByLength(pred, truth) ==
    LET predicted_set == ItemSet(pred)
        truth_set     == ItemSet(truth)
    IN [tp |-> Cardinality(predicted_set \cap truth_set),
        fp |-> Len(pred) - Cardinality(predicted_set \cap truth_set),
        fn |-> Len(truth) - Cardinality(predicted_set \cap truth_set)]

calculate_metrics_for_file(pred, truth) ==
    LET predicted_set == ItemSet(pred)
        truth_set     == ItemSet(truth)
    IN [tp |-> Cardinality(predicted_set \cap truth_set),
        fp |-> Cardinality(predicted_set \ truth_set),
        fn |-> Cardinality(truth_set \ predicted_set)]

\* The lists of at most n elements of S.
ListsUpTo(S, n) == UNION { [1..k -> S] : k \in 0..n }

\* The form records SpecScore draws its lists from: two types, three page
\* ranges that differ in the start page only or in the end page only.
ScoreTypes == { "f1040sc", "1040f" }
ScoreRanges == { << 1, 3 >>, << 1, 4 >>, << 2, 3 >> }
ScoreRecords == { Seg(t, r[1], r[2]) : t \in ScoreTypes, r \in ScoreRanges }

InitScore ==
    /\ prog = "score"
    /\ pc = "call"
    /\ predicted \in ListsUpTo(ScoreRecords, MaxRecords)
    /\ ground_truth \in ListsUpTo(ScoreRecords, MaxRecords - Len(predicted))
    /\ metrics = Unbound
    /\ results = None
    /\ IdleParse /\ IdleEval /\ IdleIdentify

Calculate ==
    /\ prog = "score" /\ pc = "call"
    /\ metrics' = calculate_metrics_for_file(predicted, ground_truth)
    /\ pc' = "done"
    /\ UNCHANGED <<prog, results, predicted, ground_truth, parseVars, evalVars,
                   identVars>>

NextScore == Calculate

SpecScore == InitScore /\ [][NextScore]_vars

-----------------------------------------------------------------------------
(* evaluate_parser_accuracy                                                *)

\* A Python float that is the quotient of two integers.
Ratio(num, den) == [num |-> num, den |-> den]

\* round(x, 4), in ten-thousandths.  No quotient of the model lies halfway
\* between two ten-thousandths (that takes a denominator divisible by 32).
Round4(x) == (20000 * x.num + x.den) \div (2 * x.den)

\* What a division by zero raises.
ZeroDivisionError == [raised |-> "ZeroDivisionError"]

\* Python's num / den.
Divide(num, den) == IF den = 0 THEN ZeroDivisionError ELSE Ratio(num, den)

\* Mutant of Precision: the quotient is taken without the guard.
Precision_NoGuard(tp, fp) == Divide(tp, tp + fp)

\* precision, and with fn for fp the recall: 0.0 when the denominator is 0.
Precision(tp, fp) == IF tp + fp > 0 THEN Divide(tp, tp + fp) ELSE Ratio(0, 1)

\* 2 * (precision * recall) / (precision + recall), 0.0 when that sum is 0.
F1Score(precision, recall) ==
    IF precision.num * recall.den + recall.num * precision.den > 0
    THEN Divide(2 * precision.num * recall.num,
                precision.num * recall.den + recall.num * precision.den)
    ELSE Ratio(0, 1)

\* Mutant of AddToTotal: the total is overwritten, not added to.
AddToTotal_Overwrite(total, count) == count

\* Mutant of AddToTotal: a total that is already positive is kept.
AddToTotal_KeepFirst(total, count) == IF total > 0 THEN total ELSE count

\* total += count
AddToTotal(total, count) == total + count

\* The names of the files of pdf_dir that end in .pdf.
PdfNames == { "a.pdf", "b.pdf" }

\* What os.listdir may give: the PDFs of the directory, each once, any order.
FileLists ==
    { l \in ListsUpTo(PdfNames, Cardinality(PdfNames)) :
        \A i, j \in 1..Len(l) : i # j => l[i] # l[j] }

\* What a PDF of the directory may be: unreadable, or pages with form types.
EvalPdfs ==
    { [readable |-> TRUE, pages |-> d] : d \in Streams(MaxEvalPages) }
        \cup { [readable |-> FALSE, pages |-> << >>] }

\* The records the ground-truth files of the model are written with: two
\* that the parser can produce, one with a longer range, one whose type is
\* outside the allow-list.
TruthRecords ==
    << Seg("f1040sc", 1, 1), Seg("1040f", 2, 2), Seg("f1040sc", 1, 2),
       Seg("f1040s2", 1, 1) >>

\* What json.load may give: any of TruthRecords, each at most once.
TruthLists ==
    { SelectSeq(TruthRecords, LAMBDA r : r \in S) :
        S \in SUBSET { TruthRecords[i] : i \in 1..Len(TruthRecords) } }

\* evaluate_parser_accuracy's return value for an empty directory: {}.
EmptyResult == << >>

InitEval ==
    /\ prog = "eval"
    /\ pc = "listdir"
    /\ results = None
    /\ IdleEval /\ IdleParse /\ IdleScore /\ IdleIdentify

\* os.listdir: no PDF returns {}, else the loop starts at the first file.
ListDir ==
    /\ prog = "eval" /\ pc = "listdir"
    /\ \E l \in FileLists :
         /\ pdf_files' = l
         /\ IF l = << >>
            THEN results' = EmptyResult /\ pc' = "done" /\ file_idx' = file_idx
            ELSE results' = results /\ pc' = "loop" /\ file_idx' = 1
    /\ UNCHANGED <<prog, fileVars, totalVars, printVars, parseVars, scoreVars, identVars>>

\* The names of one loop iteration are bound anew by the next one that reads
\* them: the previous file's values are never read again.
NextFile ==
    /\ predicted_forms' = << >>
    /\ predicted_forms_filtered' = << >>
    /\ ground_truth_forms' = << >>
    /\ file_metrics' = Unbound

\* Mutant of SkipNoGroundTruth: the loop is left at the first file without
\* ground truth.
SkipNoGroundTruth_Break ==
    /\ prog = "eval" /\ pc = "loop"
    /\ file_idx <= Len(pdf_files)
    /\ no_truth_warned' = no_truth_warned \cup { pdf_files[file_idx] }
    /\ file_idx' = Len(pdf_files) + 1
    /\ NextFile
    /\ UNCHANGED <<prog, pc, results, pdf_files, totalVars, open_failed,
                   parseVars, scoreVars, identVars>>

\* The current file has no ground-truth file: a warning, and continue.
SkipNoGroundTruth ==
    /\ prog = "eval" /\ pc = "loop"
    /\ file_idx <= Len(pdf_files)
    /\ no_truth_warned' = no_truth_warned \cup { pdf_files[file_idx] }
    /\ file_idx' = file_idx + 1
    /\ NextFile
    /\ UNCHANGED <<prog, pc, results, pdf_files, totalVars, open_failed,
                   parseVars, scoreVars, identVars>>

\* The current file has ground truth: the parser runs on the PDF and its
\* segments are filtered to the desired types.
Predict ==
    /\ prog = "eval" /\ pc = "loop"
    /\ file_idx <= Len(pdf_files)
    /\ \E pdf \in EvalPdfs :
         /\ predicted_forms' = find_tax_forms_in_pdf(pdf)
         /\ open_failed' = IF pdf.readable THEN open_failed
                           ELSE open_failed \cup { pdf_files[file_idx] }
    /\ predicted_forms_filtered' = FilterDesired(predicted_forms')
    /\ ground_truth_forms' = << >>
    /\ file_metrics' = Unbound
    /\ pc' = "load"
    /\ UNCHANGED <<prog, results, pdf_files, file_idx, totalVars,
                   no_truth_warned, parseVars, scoreVars, identVars>>

\* The ground truth is loaded, the file scored, its counts recorded under its
\* name and added to the totals; the loop goes on to the next file.
LoadAndScore ==
    /\ prog = "eval" /\ pc = "load"
    /\ \E truth \in TruthLists : ground_truth_forms' = truth
    /\ file_metrics' = calculate_metrics_for_file(predicted_forms_filtered,
                                                  ground_truth_forms')
    /\ per_file_results' =
           (pdf_files[file_idx] :> file_metrics') @@ per_file_results
    /\ total_tp' = AddToTotal(total_tp, file_metrics'.tp)
    /\ total_fp' = AddToTotal(total_fp, file_metrics'.fp)
    /\ total_fn' = AddToTotal(total_fn, file_metrics'.fn)
    /\ file_idx' = file_idx + 1
    /\ pc' = "loop"
    /\ UNCHANGED <<prog, results, pdf_files, predicted_forms,
                   predicted_forms_filtered, printVars, parseVars, scoreVars, identVars>>

\* After the loop: the overall metrics from the totals, and the result.  A
\* division that raises ends the function without a result.
Finish ==
    /\ prog = "eval" /\ pc = "loop"
    /\ file_idx > Len(pdf_files)
    /\ LET precision == Precision(total_tp, total_fp)
           recall    == Precision(total_tp, total_fn)
       IN IF precision = ZeroDivisionError \/ recall = ZeroDivisionError
          THEN results' = results /\ pc' = "raised"
          ELSE LET f1_score == F1Score(precision, recall)
               IN IF f1_score = ZeroDivisionError
                  THEN results' = results /\ pc' = "raised"
                  ELSE /\ results' =
                            [overall_metrics |->
                                [total_true_positives  |-> total_tp,
                                 total_false_positives |-> total_fp,
                                 total_false_negatives |-> total_fn,
                                 precision |-> Round4(precision),
                                 recall    |-> Round4(recall),
                                 f1_score  |-> Round4(f1_score)],
                             per_file_results |-> per_file_results]
                       /\ pc' = "done"
    /\ UNCHANGED <<prog, evalVars, parseVars, scoreVars, identVars>>

NextEval == ListDir \/ SkipNoGroundTruth \/ Predict \/ LoadAndScore \/ Finish

SpecEval == InitEval /\ [][NextEval]_vars

-----------------------------------------------------------------------------
(* identify_form_on_page                                                   *)

\* A text is the sequence of its characters.
UpperCase ==
    << "A", "B", "C", "D", "E", "F", "G", "H", "I", "J", "K", "L", "M",
       "N", "O", "P", "Q", "R", "S", "T", "U", "V", "W", "X", "Y", "Z" >>
LowerCase ==
    << "a", "b", "c", "d", "e", "f", "g", "h", "i", "j", "k", "l", "m",
       "n", "o", "p", "q", "r", "s", "t", "u", "v", "w", "x", "y", "z" >>
Digits == { "0", "1", "2", "3", "4", "5", "6", "7", "8", "9" }

Punctuation == { "(", ")", "_", " ", "\n", "\t" }
Characters ==
    { UpperCase[i] : i \in 1..26 } \cup { LowerCase[i] : i \in 1..26 }
        \cup Digits \cup Punctuation

\* re.IGNORECASE compares characters by their lower case.
LowerOf ==
    [c \in Characters |->
        IF \E i \in 1..26 : UpperCase[i] = c
        THEN LowerCase[CHOOSE i \in 1..26 : UpperCase[i] = c]
        ELSE c]
Lower(c) == LowerOf[c]

\* \s and \w of the regular expressions.
IsSpace(c) == c \in { " ", "\n", "\t" }
WordChars ==
    { UpperCase[i] : i \in 1..26 } \cup { LowerCase[i] : i \in 1..26 }
        \cup Digits \cup { "_" }
IsWordChar(c) == c \in WordChars

\* The elements of a pattern: literal characters, \s+ and \b.
Lit(chars) == [kind |-> "lit", chars |-> chars]
Ws == [kind |-> "ws", chars |-> << >>]
WordEnd == [kind |-> "b", chars |-> << >>]

\* r"SCHEDULE\s+X\s+\(Form\s+1040\)"
SchedulePattern(x) ==
    << Lit(<< "S", "C", "H", "E", "D", "U", "L", "E" >>), Ws, Lit(x), Ws,
       Lit(<< "(", "F", "o", "r", "m" >>), Ws,
       Lit(<< "1", "0", "4", "0", ")" >>) >>

\* r"Form\s+NNNN\b"
FormPattern(n) == << Lit(<< "F", "o", "r", "m" >>), Ws, Lit(n), WordEnd >>

\* The compiled patterns of ALL_FORM_PATTERNS, in registry order; the
\* document type of the i-th is ALL_FORM_TYPES[i].
ALL_FORM_PATTERNS ==
    << SchedulePattern(<< "1" >>),
       SchedulePattern(<< "2" >>),
       SchedulePattern(<< "3" >>),
       SchedulePattern(<< "A" >>),
       SchedulePattern(<< "B" >>),
       SchedulePattern(<< "C" >>),
       SchedulePattern(<< "D" >>),
       SchedulePattern(<< "E" >>),
       SchedulePattern(<< "8", "8", "1", "2" >>),
       FormPattern(<< "1", "0", "4", "0" >>),
       FormPattern(<< "8", "8", "8", "9" >>),
       FormPattern(<< "8", "8", "7", "9" >>),
       FormPattern(<< "1", "1", "1", "6" >>),
       FormPattern(<< "4", "9", "5", "2" >>),
       FormPattern(<< "8", "9", "4", "9" >>),
       FormPattern(<< "8", "9", "9", "5" >>),
       FormPattern(<< "8", "9", "5", "9" >>),
       FormPattern(<< "8", "9", "6", "0" >>),
       FormPattern(<< "8", "5", "8", "2" >>),
       FormPattern(<< "8", "8", "6", "3" >>),
       FormPattern(<< "8", "8", "1", "2" >>),
       FormPattern(<< "2", "4", "4", "1" >>) >>

\* The first position after the whitespace that starts at pos.
RECURSIVE SkipSpace(_, _)
SkipSpace(text, pos) ==
    IF pos <= Len(text) /\ IsSpace(text[pos]) THEN SkipSpace(text, pos + 1)
    ELSE pos

\* The elements of pattern from the k-th on match text at position pos.
RECURSIVE MatchFrom(_, _, _, _)
MatchFrom(pattern, k, text, pos) ==
    IF k > Len(pattern) THEN TRUE
    ELSE LET e == pattern[k] IN
         IF e.kind = "lit"
         THEN /\ pos + Len(e.chars) - 1 <= Len(text)
              /\ \A i \in 1..Len(e.chars) :
                     Lower(text[pos + i - 1]) = Lower(e.chars[i])
              /\ MatchFrom(pattern, k + 1, text, pos + Len(e.chars))
         ELSE IF e.kind = "ws"
         THEN /\ pos <= Len(text)
              /\ IsSpace(text[pos])
              /\ MatchFrom(pattern, k + 1, text, SkipSpace(text, pos))
         ELSE /\ pos > 1
              /\ IsWordChar(text[pos - 1])
              /\ (pos > Len(text) \/ ~IsWordChar(text[pos]))
              /\ MatchFrom(pattern, k + 1, text, pos)

\* pattern.search(text): the pattern matches somewhere in the text.
Search(pattern, text) ==
    \E pos \in 1..Len(text) : MatchFrom(pattern, 1, text, pos)

\* Mutant of FirstMatch: the loop goes on after a match, so the last pattern
\* that matches wins.
RECURSIVE FirstMatch_LastWins(_, _)
FirstMatch_LastWins(text, i) ==
    IF i > Len(ALL_FORM_PATTERNS) THEN None
    ELSE LET later == FirstMatch_LastWins(text, i + 1)
         IN IF later # None THEN later
            ELSE IF Search(ALL_FORM_PATTERNS[i], text)
                 THEN ALL_FORM_TYPES[i] ELSE None

\* The loop over the registry from its i-th pattern on: the first pattern
\* that matches returns its document type.
RECURSIVE FirstMatch(_, _)
FirstMatch(text, i) ==
    IF i > Len(ALL_FORM_PATTERNS) THEN None
    ELSE IF Search(ALL_FORM_PATTERNS[i], text) THEN ALL_FORM_TYPES[i]
         ELSE FirstMatch(text, i + 1)

\* identify_form_on_page, given the text of the search rectangle.
identify_form_on_page(text) == FirstMatch(text, 1)

\* The words the region texts of the model are written with.
W_SCHEDULE == << "S", "C", "H", "E", "D", "U", "L", "E" >>
W_C == << "C" >>
W_OpenForm == << "(", "F", "o", "r", "m" >>
W_1040Close == << "1", "0", "4", "0", ")" >>
W_form == << "f", "o", "r", "m" >>
W_8889 == << "8", "8", "8", "9" >>
Words == { W_SCHEDULE, W_C, W_OpenForm, W_1040Close, W_form, W_8889 }

\* What stands between two words of a text: a space, a line break with an
\* indent, or nothing.
Separators == { << " " >>, << "\n", " " >>, << >> }

\* The words ws with sep between each two of them.
RECURSIVE Join(_, _)
Join(ws, sep) ==
    IF Len(ws) = 0 THEN << >>
    ELSE IF Len(ws) = 1 THEN ws[1]
         ELSE ws[1] \o sep \o Join(Tail(ws), sep)

\* 'SCHEDULE C (Form 1040)'.
ScheduleCHeader ==
    Join(<< W_SCHEDULE, W_C, W_OpenForm, W_1040Close >>, << " " >>)

\* 'form 8889', 'form 1040)' on four lines.
Form8889Then1040 ==
    Join(<< W_form, W_8889, W_form, W_1040Close >>, << "\n", " " >>)

\* The texts page.get_text may give for the search rectangle.
RegionTexts ==
    { Join(ws, sep) : ws \in ListsUpTo(Words, MaxWords), sep \in Separators }

InitIdentify ==
    /\ prog = "identify"
    /\ pc = "call"
    /\ region_text \in RegionTexts
    /\ identified_type = None
    /\ results = None
    /\ IdleParse /\ IdleScore /\ IdleEval

Identify ==
    /\ prog = "identify" /\ pc = "call"
    /\ identified_type' = identify_form_on_page(region_text)
    /\ pc' = "done"
    /\ UNCHANGED <<prog, results, region_text, parseVars, scoreVars, evalVars>>

NextIdentify == Identify

SpecIdentify == InitIdentify /\ [][NextIdentify]_vars

-----------------------------------------------------------------------------
(* find_tax_forms_in_pdf, called on one document and then on another.      *)

\* The region texts of the pages: a Schedule C header, a Form 1040 header,
\* and a text no pattern matches.
PageTexts == { ScheduleCHeader, Form8889Then1040, W_C }

\* The documents: the region text of each page.
Documents == ListsUpTo(PageTexts, MaxRunPages)

\* The value a call returns is kept for the caller once the first call has
\* returned.
InitTwoRuns ==
    /\ prog = "twice"
    /\ pc = "call"
    /\ results = Unbound
    /\ IdleParse /\ IdleScore /\ IdleEval /\ IdleIdentify

\* Mutant of CallFind: found_forms is not bound anew on entry.
CallFind_KeepForms ==
    /\ prog = "twice" /\ pc = "call"
    /\ \E d \in Documents : doc' = d
    /\ current_form' = NoForm
    /\ page_num' = 0
    /\ pc' = "loop"
    /\ UNCHANGED <<prog, results, found_forms, scoreVars, evalVars, identVars>>

\* Entry of find_tax_forms_in_pdf: found_forms and current_form are bound
\* anew, fitz.open succeeds and the loop starts at page 0.
CallFind ==
    /\ prog = "twice" /\ pc = "call"
    /\ \E d \in Documents : doc' = d
    /\ found_forms' = << >>
    /\ current_form' = NoForm
    /\ page_num' = 0
    /\ pc' = "loop"
    /\ UNCHANGED <<prog, results, scoreVars, evalVars, identVars>>

\* The caller takes the returned list: after the first call it goes on to
\* the second, after the second it is done.
TakeResult(pages, forms) ==
    IF results = Unbound
    THEN results' = [pages |-> pages, forms |-> forms] /\ pc' = "call"
    ELSE results' = results /\ pc' = "done"

\* Entry of find_tax_forms_in_pdf when fitz.open raises: [] is returned.
CallFindFails ==
    /\ prog = "twice" /\ pc = "call"
    /\ doc' = << >>
    /\ found_forms' = << >>
    /\ current_form' = NoForm
    /\ page_num' = 0
    /\ TakeResult(doc', << >>)
    /\ UNCHANGED <<prog, scoreVars, evalVars, identVars>>

\* One page of the loop: the form type is identified from the region text.
RunPage ==
    /\ prog = "twice" /\ pc = "loop"
    /\ page_num < Len(doc)
    /\ LET form_type == identify_form_on_page(doc[page_num + 1])
           st == ProcessPage([current_form |-> current_form,
                              found_forms  |-> found_forms],
                             page_num, form_type)
       IN /\ current_form' = st.current_form
          /\ found_forms' = st.found_forms
    /\ page_num' = page_num + 1
    /\ UNCHANGED <<prog, pc, doc, results, scoreVars, evalVars, identVars>>

\* The loop is over: the tracked form is finalized and the list returned.
RunReturn ==
    /\ prog = "twice" /\ pc = "loop"
    /\ page_num = Len(doc)
    /\ found_forms' = FinishForms([current_form |-> current_form,
                                   found_forms  |-> found_forms], Len(doc))
    /\ TakeResult(doc, found_forms')
    /\ UNCHANGED <<prog, doc, page_num, current_form,
                   scoreVars, evalVars, identVars>>

NextTwoRuns == CallFind \/ CallFindFails \/ RunPage \/ RunReturn

SpecTwoRuns == InitTwoRuns /\ [][NextTwoRuns]_vars

-----------------------------------------------------------------------------
(* Claims about find_tax_forms_in_pdf, checked under SpecParse.            *)

\* find_tax_forms_in_pdf has returned its list (found_forms) for doc.
Returned == prog = "parse" /\ pc \in {"returned", "exit"}

LabeledPages == { p \in 1..Len(doc) : doc[p] # None }

\* The indices of the returned segments that contain page p.
SegmentsAt(p) ==
    { i \in 1..Len(found_forms) :
        found_forms[i].start_page <= p /\ p <= found_forms[i].end_page }

\* The last labeled page before page p, or 0.
PrevLabeled(p) ==
    LET before == { q \in LabeledPages : q < p }
    IN IF before = {} THEN 0
       ELSE CHOOSE q \in before : \A r \in before : r <= q

\* The page-by-page run and find_tax_forms_in_pdf taken as one call agree.
StepwiseAgrees ==
    Returned =>
        found_forms = find_tax_forms_in_pdf([readable |-> TRUE, pages |-> doc])

\* C1: the returned list is well-formed and disjoint in ascending order: every
\* segment has start_page <= end_page and each segment ends before the next
\* one starts, so no page belongs to two segments.
C1_WellFormedDisjoint ==
    Returned =>
        /\ \A i \in 1..Len(found_forms) :
               found_forms[i].start_page <= found_forms[i].end_page
        /\ \A i \in 1..(Len(found_forms) - 1) :
               found_forms[i].end_page < found_forms[i + 1].start_page
        /\ \A p \in 1..Len(doc) : Cardinality(SegmentsAt(p)) <= 1

C1_Witness ==
    /\ Returned
    /\ Len(found_forms) >= 3
    /\ \E i \in 1..Len(found_forms) :
           found_forms[i].start_page < found_forms[i].end_page

\* C2: coverage: every page whose label is not None lies in exactly one
\* returned segment, and that segment's document_type is the page's label.
C2_Coverage ==
    Returned =>
        \A p \in LabeledPages :
            /\ Cardinality(SegmentsAt(p)) = 1
            /\ \A i \in SegmentsAt(p) : found_forms[i].document_type = doc[p]

C2_Witness ==
    /\ Returned
    /\ Cardinality(LabeledPages) >= 3
    /\ \E p \in LabeledPages : p > 1 /\ doc[p - 1] = None
    /\ \E p, q \in LabeledPages : doc[p] # doc[q]

\* C3: gap tolerance: two pages with the same label A, with only A or None
\* between them, lie in the same returned segment of type A; the stream
\* [A, A, None, A] yields exactly the segment {A, 1, 4}.
C3_GapTolerance ==
    Returned =>
        /\ \A i, j \in LabeledPages :
               ( /\ i < j
                 /\ doc[i] = doc[j]
                 /\ \A k \in (i + 1)..(j - 1) : doc[k] \in {doc[i], None} )
               => \E s \in 1..Len(found_forms) :
                      /\ found_forms[s].document_type = doc[i]
                      /\ found_forms[s].start_page <= i
                      /\ j <= found_forms[s].end_page
        /\ doc = << "f1040sc", "f1040sc", None, "f1040sc" >>
               => found_forms = << Seg("f1040sc", 1, 4) >>

C3_Witness ==
    /\ Returned
    /\ doc = << "f1040sc", "f1040sc", None, "f1040sc" >>
    /\ found_forms = << Seg("f1040sc", 1, 4) >>

\* C4: boundary split: a page p with a label L that differs from the type of
\* the segment open there (the label of the last labeled page before p) closes
\* that segment with end_page = p - 1, None pages just before p included, and
\* opens a segment of type L with start_page = p; [A, A, B, B] yields
\* {A,1,2},{B,3,4} and [A, None, B] yields {A,1,2},{B,3,3}.
C4_BoundarySplit ==
    Returned =>
        /\ \A p \in LabeledPages :
               ( PrevLabeled(p) # 0 /\ doc[PrevLabeled(p)] # doc[p] )
               => \E s \in 1..(Len(found_forms) - 1) :
                      /\ found_forms[s].document_type = doc[PrevLabeled(p)]
                      /\ found_forms[s].end_page = p - 1
                      /\ found_forms[s + 1].document_type = doc[p]
                      /\ found_forms[s + 1].start_page = p
        /\ doc = << "f1040sc", "f1040sc", "1040f", "1040f" >>
               => found_forms = << Seg("f1040sc", 1, 2), Seg("1040f", 3, 4) >>
        /\ doc = << "f1040sc", None, "1040f" >>
               => found_forms = << Seg("f1040sc", 1, 2), Seg("1040f", 3, 3) >>

C4_Witness ==
    /\ Returned
    /\ doc = << "f1040sc", None, "1040f" >>
    /\ found_forms = << Seg("f1040sc", 1, 2), Seg("1040f", 3, 3) >>

\* C5: end of input: a segment open after the last page is emitted exactly
\* once, with end_page the number of the last page, trailing None pages
\* included ([A, None, None] yields {A,1,3}); with no segment open (no labeled
\* page) nothing is emitted.
C5_EndOfInput ==
    Returned =>
        /\ LabeledPages # {} =>
               /\ Len(found_forms) >= 1
               /\ found_forms[Len(found_forms)].end_page = Len(doc)
               /\ found_forms[Len(found_forms)].document_type
                      = doc[PrevLabeled(Len(doc) + 1)]
               /\ Cardinality({ i \in 1..Len(found_forms) :
                                  found_forms[i].end_page = Len(doc) }) = 1
        /\ LabeledPages = {} => found_forms = << >>
        /\ doc = << "f1040sc", None, None >>
               => found_forms = << Seg("f1040sc", 1, 3) >>

C5_Witness ==
    /\ Returned
    /\ doc = << "f1040sc", None, None >>
    /\ found_forms = << Seg("f1040sc", 1, 3) >>

-----------------------------------------------------------------------------
(* Claims about calculate_metrics_for_file, checked under SpecScore.       *)

Scored == prog = "score" /\ pc = "done"

\* Two form records agree in every field.
SameRecord(a, b) ==
    /\ a.document_type = b.document_type
    /\ a.start_page = b.start_page
    /\ a.end_page = b.end_page

Records(forms) == { forms[i] : i \in 1..Len(forms) }

\* C6: scoring uses exact equality of whole records: tp counts the distinct
\* records in both lists, fp the distinct predicted records absent from the
\* ground truth, fn the distinct ground-truth records absent from predicted;
\* records that differ in one field give no tp: predicted {(X,1,3)} against
\* truth {(X,1,4)} gives tp=0, fp=1, fn=1.
C6_ExactMatchScoring ==
    Scored =>
        LET P == Records(predicted)
            T == Records(ground_truth)
        IN /\ metrics.tp
                = Cardinality({ r \in P : \E t \in T : SameRecord(r, t) })
           /\ metrics.fp
                = Cardinality({ r \in P : \A t \in T : ~SameRecord(r, t) })
           /\ metrics.fn
                = Cardinality({ t \in T : \A r \in P : ~SameRecord(r, t) })
           /\ ( /\ predicted = << Seg("f1040sc", 1, 3) >>
                /\ ground_truth = << Seg("f1040sc", 1, 4) >> )
              => metrics = [tp |-> 0, fp |-> 1, fn |-> 1]

C6_Witness ==
    /\ Scored
    /\ predicted = << Seg("f1040sc", 1, 3) >>
    /\ ground_truth = << Seg("f1040sc", 1, 4) >>
    /\ metrics = [tp |-> 0, fp |-> 1, fn |-> 1]

-----------------------------------------------------------------------------
(* Claims about evaluate_parser_accuracy, checked under SpecEval.          *)

\* The current file has just been scored: file_metrics holds its counts.
FileScored ==
    prog = "eval" /\ pc \in {"loop", "done"} /\ file_metrics # Unbound

\* The file whose counts file_metrics holds.
ScoredFile == pdf_files[file_idx - 1]

\* Records of a type outside the allow-list, to add to a list.
UndesiredTypes ==
    { ALL_FORM_TYPES[i] : i \in 1..Len(ALL_FORM_TYPES) } \ desired_forms
UndesiredRecords == { Seg(t, 1, 1) : t \in UndesiredTypes }

\* The list forms without its i-th element.
RemoveAt(forms, i) ==
    [k \in 1..(Len(forms) - 1) |-> IF k < i THEN forms[k] ELSE forms[k + 1]]

UndesiredAt(forms) ==
    { i \in 1..Len(forms) : forms[i].document_type \notin desired_forms }

\* What evaluate_parser_accuracy computes for a file whose parser output is
\* pred and whose ground-truth file holds truth.
MetricsOf(pred, truth) ==
    calculate_metrics_for_file(FilterDesired(pred), truth)

\* The counts of a file are those of its predicted records of a desired type
\* against all its ground-truth records.
C7_PredictedSide ==
    LET P == { r \in Records(predicted_forms) :
                 r.document_type \in desired_forms }
        T == Records(ground_truth_forms)
    IN /\ \A i \in 1..Len(predicted_forms_filtered) :
              predicted_forms_filtered[i].document_type \in desired_forms
       /\ file_metrics = [tp |-> Cardinality(P \cap T),
                          fp |-> Cardinality(P \ T),
                          fn |-> Cardinality(T \ P)]
       /\ \A u \in UndesiredRecords :
              MetricsOf(Append(predicted_forms, u), ground_truth_forms)
                  = file_metrics
       /\ \A i \in UndesiredAt(predicted_forms) :
              MetricsOf(RemoveAt(predicted_forms, i), ground_truth_forms)
                  = file_metrics

\* Adding an undesired record to the ground truth, or removing one from it,
\* leaves the file's counts unchanged.
C7_TruthSide ==
    /\ \A u \in UndesiredRecords :
           MetricsOf(predicted_forms, Append(ground_truth_forms, u))
               = file_metrics
    /\ \A i \in UndesiredAt(ground_truth_forms) :
           MetricsOf(predicted_forms, RemoveAt(ground_truth_forms, i))
               = file_metrics

\* C7 as stated: allow-list filtering: a predicted segment and a ground-truth
\* segment of a type outside the desired set are both excluded before the
\* counts are computed, so adding or removing one on either side changes no
\* count.
C7_Original == FileScored => (C7_PredictedSide /\ C7_TruthSide)

\* C7, amended: only predicted segments are filtered.  Adding or removing a
\* predicted segment of a type outside the desired set changes no count; the
\* ground truth is scored as loaded, and each of its distinct records of a
\* type outside the desired set is a false negative.
C7_AllowListFiltering ==
    FileScored =>
        /\ C7_PredictedSide
        /\ \A t \in Records(ground_truth_forms) :
               t.document_type \notin desired_forms
                   => SortedItems(t) \notin ItemSet(predicted_forms_filtered)
        /\ file_metrics.fn >=
               Cardinality({ t \in Records(ground_truth_forms) :
                               t.document_type \notin desired_forms })

C7_Witness ==
    /\ FileScored
    /\ UndesiredAt(predicted_forms) # {}
    /\ UndesiredAt(ground_truth_forms) # {}
    /\ \E i \in UndesiredAt(predicted_forms) :
           predicted_forms[i] \in Records(ground_truth_forms)
    /\ file_metrics.tp >= 1
    /\ file_metrics.fn = 1

\* The sum of a count ("tp", "fp" or "fn") over the entries of r for files.
RECURSIVE SumCount(_, _, _)
SumCount(r, files, count) ==
    IF files = {} THEN 0
    ELSE LET f == CHOOSE x \in files : TRUE
         IN r[f][count] + SumCount(r, files \ {f}, count)

\* C8: a document whose PDF cannot be opened is excluded from aggregation: it
\* contributes zero to total tp, fp and fn, whatever its ground-truth file
\* contains, so each total is the sum over the files whose PDF opened.
C8_OpenFailureSkipped ==
    prog = "eval" =>
        LET opened == DOMAIN per_file_results \ open_failed
        IN /\ total_tp = SumCount(per_file_results, opened, "tp")
           /\ total_fp = SumCount(per_file_results, opened, "fp")
           /\ total_fn = SumCount(per_file_results, opened, "fn")

\* The files the loop is done with.
FilesDone == { pdf_files[i] : i \in 1..(file_idx - 1) }

C9_SkippedState ==
    prog = "eval" =>
        /\ \A f \in no_truth_warned : f \notin DOMAIN per_file_results
        /\ FilesDone = no_truth_warned \cup DOMAIN per_file_results
        /\ (pc = "done" /\ pdf_files # << >>) =>
               /\ file_idx = Len(pdf_files) + 1
               /\ DOMAIN results.per_file_results = FilesDone \ no_truth_warned

C9_SkipStep ==
    no_truth_warned' # no_truth_warned =>
        /\ per_file_results' = per_file_results
        /\ total_tp' = total_tp /\ total_fp' = total_fp /\ total_fn' = total_fn
        /\ pc' = "loop" /\ file_idx' = file_idx + 1

\* C9: a PDF with no ground-truth file is skipped: it gets no entry in
\* per_file_results, the step that skips it leaves the totals unchanged, and
\* every later PDF is still visited, so that at the end each PDF is either
\* skipped or has its entry.
C9_MissingGroundTruth == [] C9_SkippedState /\ [][C9_SkipStep]_vars

C9_Witness ==
    /\ prog = "eval" /\ pc = "done"
    /\ Len(pdf_files) = 2
    /\ pdf_files[1] \in no_truth_warned
    /\ pdf_files[2] \in DOMAIN per_file_results
    /\ total_tp >= 1

\* A reported value v, in ten-thousandths, is num/den rounded to 4 decimals.
IsRounded(v, num, den) ==
    /\ 2 * (10000 * num - v * den) <= den
    /\ 2 * (v * den - 10000 * num) <= den

\* C10: micro-averaged aggregation: after every processed document, and in
\* the result, each total is the sum of that count over the entries of
\* per_file_results; precision and recall are computed from the totals; for
\* documents (2,1,0) and (0,0,3) the totals are tp=2, fp=1, fn=3 with
\* precision 2/3 and recall 2/5.
C10_MicroAveraged ==
    prog = "eval" =>
        /\ total_tp = SumCount(per_file_results, DOMAIN per_file_results, "tp")
        /\ total_fp = SumCount(per_file_results, DOMAIN per_file_results, "fp")
        /\ total_fn = SumCount(per_file_results, DOMAIN per_file_results, "fn")
        /\ (pc = "done" /\ pdf_files # << >>) =>
               LET o == results.overall_metrics
                   r == results.per_file_results
               IN /\ o.total_true_positives = SumCount(r, DOMAIN r, "tp")
                  /\ o.total_false_positives = SumCount(r, DOMAIN r, "fp")
                  /\ o.total_false_negatives = SumCount(r, DOMAIN r, "fn")
                  /\ total_tp + total_fp > 0 =>
                         IsRounded(o.precision, total_tp, total_tp + total_fp)
                  /\ total_tp + total_fn > 0 =>
                         IsRounded(o.recall, total_tp, total_tp + total_fn)
                  /\ { r[f] : f \in DOMAIN r }
                         = { [tp |-> 2, fp |-> 1, fn |-> 0],
                             [tp |-> 0, fp |-> 0, fn |-> 3] }
                     => /\ o.total_true_positives = 2
                        /\ o.total_false_positives = 1
                        /\ o.total_false_negatives = 3
                        /\ IsRounded(o.precision, 2, 3)
                        /\ IsRounded(o.recall, 2, 5)
                        /\ o.precision = 6667 /\ o.recall = 4000

C10_Witness ==
    /\ prog = "eval" /\ pc = "done"
    /\ per_file_results = ("a.pdf" :> [tp |-> 2, fp |-> 1, fn |-> 0])
                       @@ ("b.pdf" :> [tp |-> 0, fp |-> 0, fn |-> 3])
    /\ results.overall_metrics.total_true_positives = 2
    /\ results.overall_metrics.total_false_positives = 1
    /\ results.overall_metrics.total_false_negatives = 3
    /\ results.overall_metrics.precision = 6667
    /\ results.overall_metrics.recall = 4000

\* The evaluation has returned the metrics of a directory with PDFs.
Reported == prog = "eval" /\ pc = "done" /\ pdf_files # << >>

\* C11: zero-division guard: the reported precision is 0.0 when total
\* tp + fp = 0, the recall 0.0 when total tp + fn = 0 and the f1 0.0 when
\* precision + recall = 0 (no true positive); with tp = fp = fn = 0 all three
\* are 0.0; no division raises, so the evaluation ends with a result.
C11_ZeroDivisionGuard ==
    prog = "eval" =>
        /\ pc # "raised"
        /\ Reported =>
               LET o == results.overall_metrics
               IN /\ total_tp + total_fp = 0 => o.precision = 0
                  /\ total_tp + total_fn = 0 => o.recall = 0
                  /\ total_tp = 0 => o.f1_score = 0
                  /\ (o.precision = 0 /\ o.recall = 0) => o.f1_score = 0
                  /\ (total_tp = 0 /\ total_fp = 0 /\ total_fn = 0) =>
                         /\ o.precision = 0
                         /\ o.recall = 0
                         /\ o.f1_score = 0

C11_Witness ==
    /\ Reported
    /\ Len(pdf_files) = 2
    /\ DOMAIN per_file_results = { "a.pdf", "b.pdf" }
    /\ total_tp = 0 /\ total_fp = 0 /\ total_fn = 0
    /\ results.overall_metrics.precision = 0
    /\ results.overall_metrics.recall = 0
    /\ results.overall_metrics.f1_score = 0


\* The names of a list of files.
Names(files) == { files[i] : i \in 1..Len(files) }

\* The totals and the per-file mapping after the loop has gone through the
\* first i files of order, where scored gives the counts of each file that
\* has ground truth.
RECURSIVE RunInOrder(_, _, _)
RunInOrder(order, i, scored) ==
    IF i = 0 THEN [tp |-> 0, fp |-> 0, fn |-> 0, per_file |-> << >>]
    ELSE LET before == RunInOrder(order, i - 1, scored)
             f == order[i]
         IN IF f \notin DOMAIN scored THEN before
            ELSE [tp |-> AddToTotal(before.tp, scored[f].tp),
                  fp |-> AddToTotal(before.fp, scored[f].fp),
                  fn |-> AddToTotal(before.fn, scored[f].fn),
                  per_file |-> (f :> scored[f]) @@ before.per_file]

\* The result is the one every order of the same files gives.
C14_SameInEveryOrder ==
    Reported =>
        \A order \in FileLists :
            Names(order) = Names(pdf_files) =>
                LET run == RunInOrder(order, Len(order), per_file_results)
                    o == results.overall_metrics
                IN /\ run.tp = total_tp /\ run.fp = total_fp
                   /\ run.fn = total_fn
                   /\ run.per_file = per_file_results
                   /\ results.per_file_results = run.per_file
                   /\ o.total_true_positives = run.tp
                   /\ o.total_false_positives = run.fp
                   /\ o.total_false_negatives = run.fn
                   /\ o.precision = Round4(Precision(run.tp, run.fp))
                   /\ o.recall = Round4(Precision(run.tp, run.fn))
                   /\ o.f1_score = Round4(F1Score(Precision(run.tp, run.fp),
                                                  Precision(run.tp, run.fn)))

\* A file's counts come from that file's predictions and ground truth alone,
\* and no other file's entry changes.
C14_FileStep ==
    (prog = "eval" /\ pc = "load" /\ pc' = "loop") =>
        LET f == pdf_files[file_idx]
        IN /\ per_file_results'[f]
                = calculate_metrics_for_file(FilterDesired(predicted_forms),
                                             ground_truth_forms')
           /\ \A g \in DOMAIN per_file_results \ { f } :
                  per_file_results'[g] = per_file_results[g]

\* C14: order independence: for the same documents with the same predictions
\* and ground truth, the totals tp, fp, fn (and so precision, recall and f1)
\* and the per_file_results mapping are the same in whatever order the
\* documents are processed.
C14_OrderIndependence ==
    [] C14_SameInEveryOrder /\ [][C14_FileStep]_vars

C14_Witness ==
    /\ Reported
    /\ pdf_files = << "b.pdf", "a.pdf" >>
    /\ per_file_results = ("a.pdf" :> [tp |-> 1, fp |-> 1, fn |-> 0])
                       @@ ("b.pdf" :> [tp |-> 0, fp |-> 2, fn |-> 1])
    /\ total_tp = 1 /\ total_fp = 3 /\ total_fn = 1

-----------------------------------------------------------------------------
(* Further claims about calculate_metrics_for_file, checked under          *)
(* SpecScore.                                                              *)

\* The list without its last element.
Front(forms) == SubSeq(forms, 1, Len(forms) - 1)

\* The last element of the list is a copy of an earlier one.
EndsWithCopy(forms) ==
    /\ Len(forms) >= 2
    /\ \E i \in 1..(Len(forms) - 1) : forms[i] = forms[Len(forms)]

\* C13: duplicates collapse: a copy of a record that is already in the
\* predicted list, or already in the ground-truth list, appended to that
\* list, leaves tp, fp and fn as they are.
C13_DuplicatesCollapse ==
    Scored =>
        /\ \A i \in 1..Len(predicted) :
               calculate_metrics_for_file(Append(predicted, predicted[i]),
                                          ground_truth) = metrics
        /\ \A i \in 1..Len(ground_truth) :
               calculate_metrics_for_file(predicted,
                   Append(ground_truth, ground_truth[i])) = metrics
        /\ EndsWithCopy(predicted) =>
               metrics = calculate_metrics_for_file(Front(predicted),
                                                    ground_truth)
        /\ EndsWithCopy(ground_truth) =>
               metrics = calculate_metrics_for_file(predicted,
                                                    Front(ground_truth))

C13_Witness ==
    /\ Scored
    /\ predicted = << Seg("f1040sc", 1, 3), Seg("f1040sc", 1, 3) >>
    /\ ground_truth = << Seg("f1040sc", 1, 3) >>
    /\ metrics = [tp |-> 1, fp |-> 0, fn |-> 0]

\* C20: count conservation: tp + fp is the number of distinct predicted
\* records, tp + fn the number of distinct ground-truth records, and none of
\* the three counts is negative.
C20_CountConservation ==
    Scored =>
        /\ metrics.tp + metrics.fp = Cardinality(Records(predicted))
        /\ metrics.tp + metrics.fn = Cardinality(Records(ground_truth))
        /\ metrics.tp >= 0 /\ metrics.fp >= 0 /\ metrics.fn >= 0

C20_Witness ==
    /\ Scored
    /\ Len(predicted) = 2 /\ Cardinality(Records(predicted)) = 1
    /\ Len(ground_truth) = 1
    /\ metrics = [tp |-> 0, fp |-> 1, fn |-> 1]

-----------------------------------------------------------------------------
(* Claims about identify_form_on_page, checked under SpecIdentify.         *)

Identified == prog = "identify" /\ pc = "done"

\* The registry positions of the patterns that match the text.
Matching(text) ==
    { i \in 1..Len(ALL_FORM_PATTERNS) : Search(ALL_FORM_PATTERNS[i], text) }

Least(S) == CHOOSE i \in S : \A j \in S : i <= j

\* C12: pattern precedence: identify_form_on_page returns the document type
\* of the earliest pattern of the registry that matches the region text, and
\* None exactly when no pattern matches; a 'SCHEDULE C (Form 1040)' header,
\* which the 'Form 1040' pattern matches too, gives f1040sc.
C12_PatternPrecedence ==
    Identified =>
        /\ identified_type = None <=> Matching(region_text) = { }
        /\ Matching(region_text) # { } =>
               identified_type = ALL_FORM_TYPES[Least(Matching(region_text))]
        /\ region_text = ScheduleCHeader =>
               /\ { 6, 10 } \subseteq Matching(region_text)
               /\ identified_type = "f1040sc"

C12_Witness ==
    /\ Identified
    /\ region_text = ScheduleCHeader
    /\ Matching(region_text) = { 6, 10 }
    /\ identified_type = "f1040sc"



-----------------------------------------------------------------------------
(* Further claims about find_tax_forms_in_pdf, checked under SpecParse.    *)

\* The step processes a page of the loop.
PageStep == prog = "parse" /\ pc = "loop" /\ page_num' = page_num + 1

\* The label of the page a page step processes.
StepLabel == doc[page_num + 1]

\* The step leaves the tracked form and the emitted list as they are.
NothingChanges == current_form' = current_form /\ found_forms' = found_forms

\* The segments emitted before the step are the same after it.
EmittedKept ==
    /\ Len(found_forms') >= Len(found_forms)
    /\ \A i \in 1..Len(found_forms) : found_forms'[i] = found_forms[i]

C16_Step ==
    /\ (PageStep /\ StepLabel = None) => NothingChanges
    /\ (PageStep /\ current_form # NoForm /\ StepLabel # None) =>
           (StepLabel = current_form.document_type => NothingChanges)
    /\ prog = "parse" => EmittedKept

\* C16: no-op pages: a page with no label, whether or not a form is tracked,
\* and a page whose label is the tracked form's type leave the tracked form
\* (type and start_page) and the emitted segments unchanged; a segment that
\* has been emitted is changed by no later page.
C16_NoOpPages == [][C16_Step]_vars

C16_Witness ==
    /\ prog = "parse" /\ pc = "loop"
    /\ doc = << "f1040sc", "1040f", None, "1040f" >>
    /\ page_num = 4
    /\ found_forms = << Seg("f1040sc", 1, 1) >>
    /\ current_form = NewForm("1040f", 2)

\* The pages at which a returned segment starts.
StartPages == { found_forms[i].start_page : i \in 1..Len(found_forms) }

\* Every returned segment ends at the last page of the document or just
\* before a page with another form type.
ClosedAtBoundary ==
    \A i \in 1..Len(found_forms) :
        LET e == found_forms[i].end_page
        IN \/ e = Len(doc)
           \/ /\ e < Len(doc)
              /\ doc[e + 1] # None
              /\ doc[e + 1] # found_forms[i].document_type

\* The rule with the page immediately before p as the page compared with.
C17_Original ==
    Returned =>
        /\ \A p \in 1..Len(doc) :
               p \in StartPages
                   <=> /\ doc[p] # None
                       /\ \/ PrevLabeled(p) = 0
                          \/ doc[p] # doc[p - 1]
        /\ ClosedAtBoundary

\* C17: segment creation rule: a segment starts at page p exactly when p has
\* a label and p is the first labeled page or its label differs from the
\* label of the last labeled page before it (the tracked form's type), pages
\* with no label in between being passed over; a segment is closed only
\* where another label comes or the document ends.
C17_SegmentCreation ==
    Returned =>
        /\ \A p \in 1..Len(doc) :
               p \in StartPages
                   <=> /\ doc[p] # None
                       /\ \/ PrevLabeled(p) = 0
                          \/ doc[p] # doc[PrevLabeled(p)]
        /\ ClosedAtBoundary

C17_Witness ==
    /\ Returned
    /\ doc = << "f1040sc", None, "f1040sc", "1040f" >>
    /\ found_forms = << Seg("f1040sc", 1, 3), Seg("1040f", 4, 4) >>
    /\ StartPages = { 1, 4 }

\* main has returned the filtered list.
Filtered == prog = "parse" /\ pc = "exit" /\ found_forms # << >>

\* The pages identified as a form that is not desired.
UndesiredPages == { p \in LabeledPages : doc[p] \notin desired_forms }

\* C18: undesired forms delimit boundaries: the allow-list is applied to the
\* finished segments, so every segment of the filtered output has a desired
\* document_type and is a segment of the unfiltered output, pages unchanged;
\* a page identified as a form that is not desired ends the target segment
\* before it at the page before it and lies in no segment of the filtered
\* output.
C18_UndesiredDelimit ==
    Filtered =>
        /\ \A i \in 1..Len(results) :
               /\ results[i].document_type \in desired_forms
               /\ \E j \in 1..Len(found_forms) : found_forms[j] = results[i]
        /\ \A p \in UndesiredPages :
               /\ \A i \in 1..Len(results) :
                      ~(results[i].start_page <= p /\ p <= results[i].end_page)
               /\ ( /\ PrevLabeled(p) # 0
                    /\ doc[PrevLabeled(p)] \in desired_forms )
                  => \E i \in 1..Len(results) :
                         /\ results[i].document_type = doc[PrevLabeled(p)]
                         /\ results[i].end_page = p - 1
        /\ doc = << "f1040sc", "f1040s2", "f1040sc" >>
               => results = << Seg("f1040sc", 1, 1), Seg("f1040sc", 3, 3) >>

C18_Witness ==
    /\ Filtered
    /\ doc = << "f1040sc", "f1040s2", "f1040sc" >>
    /\ found_forms = << Seg("f1040sc", 1, 1), Seg("f1040s2", 2, 2),
                        Seg("f1040sc", 3, 3) >>
    /\ results = << Seg("f1040sc", 1, 1), Seg("f1040sc", 3, 3) >>

\* C19: tiling: with at least one labeled page, the returned segments cover
\* the pages from the first labeled page through the last page of the
\* document with no gap and no overlap: the first segment starts at the first
\* labeled page, each next one at the end_page of the one before plus 1, the
\* last one ends at the last page, and no two segments in a row have the same
\* document_type; with no labeled page the list is empty.
C19_Tiling ==
    Returned =>
        /\ LabeledPages # {} =>
               /\ Len(found_forms) >= 1
               /\ found_forms[1].start_page
                      = CHOOSE p \in LabeledPages :
                            \A q \in LabeledPages : p <= q
               /\ \A i \in 1..(Len(found_forms) - 1) :
                      /\ found_forms[i + 1].start_page
                             = found_forms[i].end_page + 1
                      /\ found_forms[i + 1].document_type
                             # found_forms[i].document_type
               /\ found_forms[Len(found_forms)].end_page = Len(doc)
               /\ \A p \in 1..Len(doc) :
                      Cardinality(SegmentsAt(p))
                          = IF p >= found_forms[1].start_page THEN 1 ELSE 0
        /\ LabeledPages = {} => found_forms = << >>

C19_Witness ==
    /\ Returned
    /\ doc = << None, "f1040sc", None, "1040f" >>
    /\ found_forms = << Seg("f1040sc", 2, 3), Seg("1040f", 4, 4) >>

-----------------------------------------------------------------------------
(* Claims about repeated calls, checked under SpecTwoRuns.                 *)

SecondReturned == prog = "twice" /\ pc = "done"

\* The form type identified on each page of a document.
Labels(pages) == [i \in 1..Len(pages) |-> identify_form_on_page(pages[i])]

\* What one call on the document alone returns.
AloneOn(pages) ==
    FinishForms(PageLoop(Labels(pages), 0,
                         [current_form |-> NoForm, found_forms |-> << >>]),
                Len(pages))

\* C15: determinism: the identifier gives the same label for the same region
\* text and the segment builder the same list for the same labels, so a
\* second call on the same document returns what the first returned; nothing
\* of the first document's call is left in the second's: the second call
\* returns what a call on its document alone returns.
C15_Determinism ==
    SecondReturned =>
        /\ found_forms = AloneOn(doc)
        /\ doc = results.pages => found_forms = results.forms
        /\ Labels(doc) = Labels(results.pages) =>
               found_forms = results.forms

C15_Witness ==
    /\ SecondReturned
    /\ doc = << ScheduleCHeader, W_C, Form8889Then1040 >>
    /\ results.pages = doc
    /\ found_forms = << Seg("f1040sc", 1, 2), Seg("1040f", 3, 3) >>
    /\ results.forms = found_forms


====
